---- MODULE Spec2Model ----
(***************************************************************************)
(* Accuracy evaluation (notebooks/05_Accuracy_Testing.py) and the          *)
(* self-learning improvement cycle (notebooks/06_Self_Learning.py).        *)
(*                                                                         *)
(* Numbers are Python floats in the source.  They are modelled as exact    *)
(* integers counted in thousandths, so that 0.001 is the integer 1         *)
(* and 100 is 100000; quotients are kept as exact fractions [num, den]     *)
(* with the sign the division gives them.                                  *)
(***************************************************************************)
EXTENDS Integers, Sequences, FiniteSets, TLC

VARIABLES
    results,          \* tester.results
    summary,          \* the summary returned by the last run_test_suite
    call,             \* the last call made to the tester, with its inputs
    pc,               \* position of continuous_improvement_cycle
    iteration,        \* loop variable of continuous_improvement_cycle
    max_iterations,   \* argument of continuous_improvement_cycle
    test_cases,       \* argument of continuous_improvement_cycle
    failures,         \* failures handed to self_learn_from_failures
    learning_result,  \* value returned by self_learn_from_failures
    add_calls,        \* client.add_example calls made by the cycle, in order
    evals,            \* number of run_test_suite calls made by the cycle
    publishes,        \* number of client.publish calls made by the cycle
    accuracies,       \* summary["accuracy"] of each evaluation of the cycle
    returned,         \* what continuous_improvement_cycle returned, if it did
    sql_call,         \* the query handed to sql_validator and what came back
    dax_call,         \* the measure handed to pbip_extractor and what came back
    failures_json,    \* the file ../config/failures.json
    loaded_failures   \* what load_failures returned to notebook 06, if called

vars == <<results, summary, call, pc, iteration, max_iterations, test_cases,
          failures, learning_result, add_calls, evals, publishes, accuracies,
          returned, sql_call, dax_call, failures_json, loaded_failures>>

utilVars == <<sql_call, dax_call>>
notebookVars == <<failures_json, loaded_failures>>
testerVars == <<results, summary, call>>
cycleVars == <<pc, iteration, max_iterations, test_cases, failures,
               learning_result, add_calls, evals, publishes, accuracies,
               returned>>

-----------------------------------------------------------------------------
(* Numbers, fractions and optional values                                   *)

Abs(x) == IF x < 0 THEN -x ELSE x

\* x / y for y # 0, as an exact fraction: the sign of y stays in den.
Div(x, y) == [num |-> x, den |-> y]

\* a <= b for two fractions with non-zero denominators.
FracLeq(a, b) ==
    LET an == IF a.den < 0 THEN -a.num ELSE a.num
        ad == Abs(a.den)
        bn == IF b.den < 0 THEN -b.num ELSE b.num
        bd == Abs(b.den)
    IN  an * bd <= bn * ad

FracGeq(a, b) == FracLeq(b, a)

NoFrac == [num |-> 0, den |-> 1]

\* Python None / a missing dictionary key, and a present value.
None == [some |-> FALSE, v |-> 0]
Some(x) == [some |-> TRUE, v |-> x]
NoneFrac == [some |-> FALSE, v |-> NoFrac]
NoneText == [some |-> FALSE, v |-> ""]

\* TOLERANCE = 0.01, the default of test_single_case's tolerance parameter.
TOLERANCE == [num |-> 1, den |-> 100]

\* The target accuracy 0.95 of continuous_improvement_cycle.
TARGET_ACCURACY == [num |-> 95, den |-> 100]

-----------------------------------------------------------------------------
(* Test cases                                                               *)

TestCase(q, dax, metric, descr) ==
    [question |-> q, expected_dax |-> dax, metric_name |-> metric,
     description |-> descr]

TEST_CASES == <<
    TestCase("How many total users?",
             "EVALUATE ROW(\"TotalUsers\", DISTINCTCOUNT(UsageMetrics[UserId]))",
             "TotalUsers", "Count of unique users"),
    TestCase("What is the average satisfaction rate?",
             "EVALUATE ROW(\"AvgSatisfaction\", AVERAGE(UsageMetrics[SatisfactionRate]))",
             "AvgSatisfaction", "Average satisfaction score"),
    TestCase("What is the total session count?",
             "EVALUATE ROW(\"TotalSessions\", SUM(UsageMetrics[Sessions]))",
             "TotalSessions", "Sum of all sessions"),
    TestCase("How many regions do we have?",
             "EVALUATE ROW(\"RegionCount\", DISTINCTCOUNT(UsageMetrics[Region]))",
             "RegionCount", "Count of unique regions") >>

\* A caller-supplied test case whose metric is not one of the four above.
OtherCase ==
    TestCase("What is the largest session count?",
             "EVALUATE ROW(\"MaxSessions\", MAX(UsageMetrics[Sessions]))",
             "MaxSessions", "Largest session count")

-----------------------------------------------------------------------------
(* Exceptions and the answers of the two external services                  *)

Exc(cls, msg) == [cls |-> cls, msg |-> msg]
NoExc == Exc("", "")

\* Classes derived from Exception that the modelled code can meet.
ExceptionClasses ==
    {"ConnectionError", "RuntimeError", "ValueError", "IndexError", "TypeError"}

Cell(v) == [isnum |-> TRUE, v |-> v]
TextCell == [isnum |-> FALSE, v |-> 0]
Row(shape, cells) == [shape |-> shape, cells |-> cells]

\* agent.query(question): raises, or returns a response with its data rows.
AgentRaises(e) == [raised |-> TRUE, exc |-> e, data |-> <<>>]
AgentReturns(rows) == [raised |-> FALSE, exc |-> NoExc, data |-> rows]
AgentValue(v) == AgentReturns(<<Row("tuple", <<Cell(v)>>)>>)

\* query_report_dax(dax): raises, or returns a frame whose first cell is v.
DaxRaises(e) == [raised |-> TRUE, exc |-> e, value |-> 0]
DaxReturns(v) == [raised |-> FALSE, exc |-> NoExc, value |-> v]

AgentDown == Exc("ConnectionError", "agent unavailable")
SempyDown == Exc("RuntimeError", "sempy not available")

-----------------------------------------------------------------------------
(* ReportBasedAccuracyTester                                                *)

Returned(v) == [raised |-> FALSE, exc |-> NoExc, value |-> v]
Raised(e) == [raised |-> TRUE, exc |-> e, value |-> 0]

\* float(x) of a cell.
Float(cell) ==
    IF cell.isnum THEN Returned(cell.v)
    ELSE Raised(Exc("ValueError", "could not convert string to float"))

extract_numeric_value(response) ==
    IF Len(response.data) > 0
    THEN LET first_row == response.data[1]
         IN  IF first_row.shape = "tuple" /\ Len(first_row.cells) > 0
             THEN Float(first_row.cells[1])
             ELSE IF first_row.shape = "dict"
                  THEN IF Len(first_row.cells) > 0
                       THEN Float(first_row.cells[1])
                       ELSE Raised(Exc("IndexError", "list index out of range"))
                  ELSE Returned(0)
    ELSE Returned(0)

\* A clause that catches the agent's connection errors only.
CatchesConnectionOnly(e) == e.cls = "ConnectionError"

\* The clause `except Exception as e` of test_single_case.
Catches(e) == e.cls \in ExceptionClasses

\* The except block: the result built so far becomes an error result.
\* An exception the clause does not catch leaves the method.
Handle(result, e) ==
    IF Catches(e)
    THEN [propagated |-> FALSE, exc |-> NoExc,
          result |-> [result EXCEPT !.status = "error", !.error = Some(e.msg)]]
    ELSE [propagated |-> TRUE, exc |-> e, result |-> result]

Completed(result) == [propagated |-> FALSE, exc |-> NoExc, result |-> result]

\* abs(agent_value - expected_value) / expected_value
RelativeDifference(agent_value, expected_value) ==
    Div(Abs(agent_value - expected_value), expected_value)

\* The f-string of the FAIL line formats result['difference'] with :.2%.
FormatPercent(difference) ==
    IF difference.some THEN Returned(0)
    ELSE Raised(Exc("TypeError",
                    "unsupported format string passed to NoneType.__format__"))

\* is_match = difference < tolerance
StrictlyWithinTolerance(difference, tolerance) ==
    ~FracLeq(tolerance, difference)

\* is_match = difference <= tolerance
WithinTolerance(difference, tolerance) == FracLeq(difference, tolerance)

\* The comparison and the classification that follows it (inside the try).
Compare(result, agent_value, expected_value, tolerance) ==
    LET zero == expected_value = 0
        difference == RelativeDifference(agent_value, expected_value)
        compared == IF zero THEN result
                    ELSE [result EXCEPT !.difference = Some(difference)]
        is_match == IF zero THEN agent_value = 0
                    ELSE WithinTolerance(difference, tolerance)
    IN  IF is_match
        THEN Completed([compared EXCEPT !.status = "pass"])
        ELSE LET failed == [compared EXCEPT !.status = "fail"]
                 shown == FormatPercent(failed.difference)
             IN  IF shown.raised THEN Handle(failed, shown.exc)
                 ELSE Completed(failed)

\* The body of test_single_case up to self.results.append(result).
Evaluate(test_case, agent_out, dax_out, tolerance) ==
    LET result == [question |-> test_case.question,
                   metric |-> test_case.metric_name,
                   status |-> "unknown",
                   agent_value |-> None,
                   expected_value |-> None,
                   difference |-> NoneFrac,
                   error |-> NoneText]
    IN  IF agent_out.raised THEN Handle(result, agent_out.exc)
        ELSE LET extracted == extract_numeric_value(agent_out)
             IN  IF extracted.raised THEN Handle(result, extracted.exc)
                 ELSE LET with_agent ==
                              [result EXCEPT !.agent_value = Some(extracted.value)]
                      IN  IF dax_out.raised THEN Handle(with_agent, dax_out.exc)
                          ELSE Compare(
                                 [with_agent EXCEPT
                                    !.expected_value = Some(dax_out.value)],
                                 extracted.value, dax_out.value, tolerance)

\* test_single_case on a tester whose results are rs.
test_single_case(rs, test_case, agent_out, dax_out, tolerance) ==
    LET e == Evaluate(test_case, agent_out, dax_out, tolerance)
    IN  IF e.propagated
        THEN [propagated |-> TRUE, exc |-> e.exc, results |-> rs]
        ELSE [propagated |-> FALSE, exc |-> NoExc,
              results |-> Append(rs, e.result)]

\* run_test_suite without the reset of self.results.
KeptResults(rs) == rs

\* The list run_test_suite starts from: self.results = [].
FreshResults(rs) == <<>>

\* The loop of run_test_suite from case i on; outs[i] holds the answers the
\* two services give for case i.
RECURSIVE RunCases(_, _, _, _)
RunCases(rs, cases, outs, i) ==
    IF i > Len(cases) THEN [propagated |-> FALSE, exc |-> NoExc, results |-> rs]
    ELSE CHOOSE run \in
           {IF one.propagated THEN one
            ELSE RunCases(one.results, cases, outs, i + 1) :
              one \in {test_single_case(rs, cases[i], outs[i].agent,
                                        outs[i].dax, TOLERANCE)}} : TRUE

RECURSIVE CountStatus(_, _)
CountStatus(rs, status) ==
    IF rs = <<>> THEN 0
    ELSE (IF Head(rs).status = status THEN 1 ELSE 0)
         + CountStatus(Tail(rs), status)

\* passed / total without the guard on total.
UnguardedAccuracy(passed, total) == Div(passed, total)

Accuracy(passed, total) == IF total > 0 THEN Div(passed, total) ELSE Div(0, 1)

Summarize(rs) ==
    LET passed == CountStatus(rs, "pass")
        failed == CountStatus(rs, "fail")
        errors == CountStatus(rs, "error")
        total == Len(rs)
    IN  [total |-> total, passed |-> passed, failed |-> failed,
         errors |-> errors, accuracy |-> Accuracy(passed, total),
         results |-> rs]

NoSummary == [total |-> 0, passed |-> 0, failed |-> 0, errors |-> 0,
              accuracy |-> Div(0, 1), results |-> <<>>]

\* run_test_suite on a tester whose results are rs.
run_test_suite(rs, cases, outs) ==
    CHOOSE ret \in
      {IF run.propagated
       THEN [propagated |-> TRUE, exc |-> run.exc, results |-> run.results,
             summary |-> NoSummary]
       ELSE [propagated |-> FALSE, exc |-> NoExc, results |-> run.results,
             summary |-> Summarize(run.results)] :
         run \in {RunCases(FreshResults(rs), cases, outs, 1)}} : TRUE

RECURSIVE SelectStatus(_, _)
SelectStatus(rs, status) ==
    IF rs = <<>> THEN <<>>
    ELSE IF Head(rs).status = status
         THEN <<Head(rs)>> \o SelectStatus(Tail(rs), status)
         ELSE SelectStatus(Tail(rs), status)

\* Every result that is not a pass.
get_non_passing(rs) == SelectStatus(rs, "fail") \o SelectStatus(rs, "error")

get_failures(rs) == SelectStatus(rs, "fail")

-----------------------------------------------------------------------------
(* Self-learning (notebook 06)                                              *)

\* The templates dictionary of generate_correct_sql.
templates ==
    [TotalUsers |->
       "SELECT COUNT(DISTINCT UserId) AS TotalUsers FROM dbo.UsageMetrics",
     AvgSatisfaction |->
       "SELECT AVG(SatisfactionRate) AS AvgSatisfaction FROM dbo.UsageMetrics",
     TotalSessions |->
       "SELECT SUM(Sessions) AS TotalSessions FROM dbo.UsageMetrics",
     RegionCount |->
       "SELECT COUNT(DISTINCT Region) AS RegionCount FROM dbo.UsageMetrics"]

\* templates.get(metric)
TemplateGet(metric) ==
    IF metric \in DOMAIN templates THEN Some(templates[metric]) ELSE NoneText

\* generate_correct_sql(failure, strategy).  A failure is a result of the
\* tester: it has no expected_dax key, so the dax_convert strategy reads ""
\* and falls through to `return None`.
generate_correct_sql(failure, strategy) ==
    IF strategy = "template" THEN TemplateGet(failure.metric) ELSE NoneText

\* `if not correct_sql`: None or the empty string.
Falsy(text) == ~text.some \/ text.v = ""

AddCall(question, sql, accepted) ==
    [question |-> question, sql |-> sql, accepted |-> accepted]

\* The except block of the loop body without `skipped += 1`.
LearnOneForgetsRaised(acc, failure, add) ==
    LET question == failure.question
        correct_sql == generate_correct_sql(failure, "template")
    IN  IF Falsy(correct_sql)
        THEN [acc EXCEPT !.skipped = @ + 1]
        ELSE IF add = "ok"
             THEN [acc EXCEPT
                     !.learned = @ + 1,
                     !.calls = Append(@, AddCall(question, correct_sql.v,
                                                 TRUE))]
             ELSE [acc EXCEPT
                     !.calls = Append(@, AddCall(question, correct_sql.v,
                                                 FALSE))]

\* One pass of the loop body of self_learn_from_failures; add tells whether
\* client.add_example returns ("ok") or raises for this failure.
LearnOne(acc, failure, add) ==
    LET question == failure.question
        correct_sql == generate_correct_sql(failure, "template")
    IN  IF Falsy(correct_sql)
        THEN [acc EXCEPT !.skipped = @ + 1]
        ELSE IF add = "ok"
             THEN [acc EXCEPT
                     !.learned = @ + 1,
                     !.calls = Append(@, AddCall(question, correct_sql.v,
                                                 TRUE))]
             ELSE [acc EXCEPT
                     !.skipped = @ + 1,
                     !.calls = Append(@, AddCall(question, correct_sql.v,
                                                 FALSE))]

\* The loop of self_learn_from_failures from failure i on.
RECURSIVE LearnFrom(_, _, _, _)
LearnFrom(fs, adds, i, acc) ==
    IF i > Len(fs) THEN acc
    ELSE CHOOSE learnt \in
           {LearnFrom(fs, adds, i + 1, n) :
              n \in {LearnOne(acc, fs[i], adds[i])}} : TRUE

\* self_learn_from_failures(client, failures): the returned counts and the
\* add_example calls it made.
self_learn_from_failures(fs, adds) ==
    LearnFrom(fs, adds, 1, [learned |-> 0, skipped |-> 0, calls |-> <<>>])

\* `if summary["accuracy"] >= 1.0`
AllPassed(s) == FracGeq(s.accuracy, Div(1, 1))

\* `if summary["accuracy"] >= 0.95`
TargetReached(s) == FracGeq(s.accuracy, TARGET_ACCURACY)

\* range(1, max_iterations + 2)
HasNextIterationOffByOne(it, max) == it <= max

\* range(1, max_iterations + 1) has a value after `it`.
HasNextIteration(it, max) == it < max

-----------------------------------------------------------------------------
(* Bounds and input sets                                                    *)

MaxCases == 2        \* longest test-case list handed to run_test_suite
MaxResults == 2      \* direct test_single_case calls stop at this length

SeqsUpTo(S, n) == UNION {[1..k -> S] : k \in 0..n}

Out(agent_out, dax_out) == [agent |-> agent_out, dax |-> dax_out]

\* Answers of the two services for one case of a suite: the agent is down,
\* the ground truth is down, a right answer, a wrong answer.  (The ground
\* truth is not asked when the agent query raised.)
SuiteOuts ==
    {Out(AgentRaises(AgentDown), DaxReturns(100000)),
     Out(AgentValue(100000), DaxRaises(SempyDown)),
     Out(AgentValue(100000), DaxReturns(100000)),
     Out(AgentValue(102000), DaxReturns(100000))}

SuiteCases == {TEST_CASES[1], TEST_CASES[3]}

\* Answers for a single comparison: agent values 0, 0.001, -50, -100, 99,
\* 100, 101, 102 and the other response shapes; ground truths 0, 100, -100.
CompareAgentOuts ==
    {AgentRaises(AgentDown), AgentReturns(<<>>)}
    \cup {AgentValue(v) : v \in {0, 1, -50000, -100000, 99000, 100000,
                                  101000, 102000}}
    \cup {AgentReturns(<<Row("tuple", <<TextCell, Cell(5000)>>)>>),
          AgentReturns(<<Row("tuple", <<>>)>>),
          AgentReturns(<<Row("dict", <<Cell(101000)>>)>>),
          AgentReturns(<<Row("dict", <<>>)>>)}

CompareDaxOuts ==
    {DaxRaises(SempyDown), DaxReturns(0), DaxReturns(100000),
     DaxReturns(-100000)}

Tolerances == {TOLERANCE, Div(5, 100)}

-----------------------------------------------------------------------------
(* State                                                                    *)

\* ---------------------------------------------------------------------
\* Text. A Python str is modelled as the sequence of its characters, so
\* that upper(), "in" and the regular expressions of the utilities are
\* computed character by character.

Lowers == <<"a", "b", "c", "d", "e", "f", "g", "h", "i", "j", "k", "l", "m", "n",
      "o", "p", "q", "r", "s", "t", "u", "v", "w", "x", "y", "z">>
Uppers == <<"A", "B", "C", "D", "E", "F", "G", "H", "I", "J", "K", "L", "M", "N",
      "O", "P", "Q", "R", "S", "T", "U", "V", "W", "X", "Y", "Z">>
Letters == {Lowers[i] : i \in DOMAIN Lowers} \cup {Uppers[i] : i \in DOMAIN Uppers}
Digits == {"0", "1", "2", "3", "4", "5", "6", "7", "8", "9"}
\* The character classes of the patterns: \w, \s, \d and [^,].
Class(chars) == [chars |-> chars, negated |-> FALSE]
NotClass(chars) == [chars |-> chars, negated |-> TRUE]
WordChars == Class(Letters \cup Digits \cup {"_"})
SpaceChars == Class({" ", "\t", "\n"})
DigitChars == Class(Digits)
NotComma == NotClass({","})

\* str.upper() and str.lower(), character by character.
UpperChar(c) ==
    IF \E i \in DOMAIN Lowers : Lowers[i] = c
    THEN Uppers[CHOOSE i \in DOMAIN Lowers : Lowers[i] = c]
    ELSE c
LowerChar(c) ==
    IF \E i \in DOMAIN Uppers : Uppers[i] = c
    THEN Lowers[CHOOSE i \in DOMAIN Uppers : Uppers[i] = c]
    ELSE c
Upper(s) == [i \in 1..Len(s) |-> UpperChar(s[i])]
Lower(s) == [i \in 1..Len(s) |-> LowerChar(s[i])]

\* The character at position i, or the empty string past either end.
At(s, i) == IF i \in 1..Len(s) THEN s[i] ELSE ""

\* The text t occurs at position i of s, compared exactly.
OccursAt(s, i, t) ==
    /\ i >= 1
    /\ i + Len(t) - 1 <= Len(s)
    /\ \A k \in 1..Len(t) : s[i + k - 1] = t[k]

\* t in s
Contains(t, s) == \E i \in 1..(Len(s) + 1) : OccursAt(s, i, t)

\* A literal of a pattern at position i under re.IGNORECASE.
LiteralAt(s, i, t) ==
    /\ i >= 1
    /\ i + Len(t) - 1 <= Len(s)
    /\ \A k \in 1..Len(t) : UpperChar(s[i + k - 1]) = UpperChar(t[k])

\* Character c (not the end of the text) belongs to the class.
InClass(c, cls) == c # "" /\ ((c \in cls.chars) # cls.negated)

\* Where a greedy run of characters of class cls that starts at i stops
\* (the position after its last character; i itself for an empty run).
RunEnd(s, i, cls) ==
    CHOOSE j \in i..(Len(s) + 1) :
        /\ \A k \in i..(j - 1) : InClass(s[k], cls)
        /\ ~InClass(At(s, j), cls)

\* ---------------------------------------------------------------------
\* Regular expressions of the utilities. A match is the position after its
\* last character and its captured groups.

NoMatch == [found |-> FALSE, start |-> 0, stop |-> 0, groups |-> <<>>]
Match(start, stop, groups) ==
    [found |-> TRUE, start |-> start, stop |-> stop, groups |-> groups]

\* r"FUNC\((\w+)\[(\w+)\]\)"
AggregatePattern(func) == [kind |-> "aggregate", func |-> func]
\* r'\sLIMIT\s+(\d+)' and r'\sLIMIT\s+\d+'
LimitPattern == [kind |-> "limit", func |-> <<>>]
\* r'SELECT\s+'
SelectPattern == [kind |-> "select", func |-> <<>>]
\* r"DATE_SUB\(([^,]+),\s*(\d+)\)"
DateSubPattern == [kind |-> "date_sub", func |-> <<>>]
\* r"CURRENT_DATE"
CurrentDatePattern == [kind |-> "current_date", func |-> <<>>]

kwLIMIT == <<"L", "I", "M", "I", "T">>
kwSELECT == <<"S", "E", "L", "E", "C", "T">>
kwDATE_SUB == <<"D", "A", "T", "E", "_", "S", "U", "B">>
kwCURRENT_DATE == <<"C", "U", "R", "R", "E", "N", "T", "_", "D", "A", "T", "E">>

\* FUNC\((\w+)\[(\w+)\]\) at position i: \w+ is greedy and the character
\* after it must not be a word character, so each run is maximal.
AggregateAt(s, i, func) ==
    LET open == i + Len(func)
        tableEnd == RunEnd(s, open + 1, WordChars)
        columnEnd == RunEnd(s, tableEnd + 1, WordChars)
    IN  IF /\ LiteralAt(s, i, func)
           /\ At(s, open) = "("
           /\ tableEnd > open + 1
           /\ At(s, tableEnd) = "["
           /\ columnEnd > tableEnd + 1
           /\ At(s, columnEnd) = "]"
           /\ At(s, columnEnd + 1) = ")"
        THEN Match(i, columnEnd + 2,
                   <<SubSeq(s, open + 1, tableEnd - 1),
                     SubSeq(s, tableEnd + 1, columnEnd - 1)>>)
        ELSE NoMatch

\* \sLIMIT\s+(\d+) at position i.
LimitAt(s, i) ==
    LET word == i + 1
        gap == word + Len(kwLIMIT)
        digits == RunEnd(s, gap, SpaceChars)
        stop == RunEnd(s, digits, DigitChars)
    IN  IF /\ InClass(At(s, i), SpaceChars)
           /\ LiteralAt(s, word, kwLIMIT)
           /\ digits > gap
           /\ stop > digits
        THEN Match(i, stop, <<SubSeq(s, digits, stop - 1)>>)
        ELSE NoMatch

\* SELECT\s+ at position i.
SelectAt(s, i) ==
    LET gap == i + Len(kwSELECT)
        stop == RunEnd(s, gap, SpaceChars)
    IN  IF LiteralAt(s, i, kwSELECT) /\ stop > gap
        THEN Match(i, stop, <<>>)
        ELSE NoMatch

\* DATE_SUB\(([^,]+),\s*(\d+)\) at position i: [^,]+ runs to the first
\* comma, \s* and \d+ are maximal.
DateSubAt(s, i) ==
    LET open == i + Len(kwDATE_SUB)
        comma == RunEnd(s, open + 1, NotComma)
        digits == RunEnd(s, comma + 1, SpaceChars)
        stop == RunEnd(s, digits, DigitChars)
    IN  IF /\ LiteralAt(s, i, kwDATE_SUB)
           /\ At(s, open) = "("
           /\ comma > open + 1
           /\ At(s, comma) = ","
           /\ stop > digits
           /\ At(s, stop) = ")"
        THEN Match(i, stop + 1,
                   <<SubSeq(s, open + 1, comma - 1),
                     SubSeq(s, digits, stop - 1)>>)
        ELSE NoMatch

\* CURRENT_DATE at position i, matched without re.IGNORECASE.
CurrentDateAtExact(s, i) ==
    IF OccursAt(s, i, kwCURRENT_DATE)
    THEN Match(i, i + Len(kwCURRENT_DATE), <<>>)
    ELSE NoMatch

\* CURRENT_DATE at position i.
CurrentDateAt(s, i) ==
    IF LiteralAt(s, i, kwCURRENT_DATE)
    THEN Match(i, i + Len(kwCURRENT_DATE), <<>>)
    ELSE NoMatch

\* re.match of a pattern at position i.
MatchAt(pattern, s, i) ==
    CASE pattern.kind = "aggregate" -> AggregateAt(s, i, pattern.func)
      [] pattern.kind = "limit" -> LimitAt(s, i)
      [] pattern.kind = "select" -> SelectAt(s, i)
      [] pattern.kind = "date_sub" -> DateSubAt(s, i)
      [] pattern.kind = "current_date" -> CurrentDateAt(s, i)

\* re.search(pattern, s, re.IGNORECASE): the leftmost match.
re_search(pattern, s) ==
    LET hits == {i \in 1..Len(s) : MatchAt(pattern, s, i).found}
    IN  IF hits = {} THEN NoMatch
        ELSE MatchAt(pattern, s,
                     CHOOSE i \in hits : \A j \in hits : i <= j)

\* A replacement template: literal text and group references \1, \2.
Text(t) == [group |-> 0, text |-> t]
Group(n) == [group |-> n, text |-> <<>>]
RECURSIVE Expand(_, _)
Expand(repl, groups) ==
    IF repl = <<>> THEN <<>>
    ELSE (IF Head(repl).group = 0 THEN Head(repl).text
          ELSE groups[Head(repl).group]) \o Expand(Tail(repl), groups)

\* re.sub from position i on: matches are replaced left to right without
\* overlap; left is the number of replacements still allowed (-1: all).
RECURSIVE SubFrom(_, _, _, _, _)
SubFrom(pattern, repl, s, i, left) ==
    LET hits == {j \in i..Len(s) : MatchAt(pattern, s, j).found}
    IN  IF left = 0 \/ hits = {}
        THEN SubSeq(s, i, Len(s))
        ELSE CHOOSE text \in
               {SubSeq(s, i, m.start - 1) \o Expand(repl, m.groups)
                  \o SubFrom(pattern, repl, s, m.stop,
                             IF left > 0 THEN left - 1 ELSE left) :
                  m \in {MatchAt(pattern, s,
                                 CHOOSE j \in hits :
                                     \A k \in hits : j <= k)}} : TRUE

\* re.sub(pattern, repl, s, count=count, flags=re.IGNORECASE)
re_sub(pattern, repl, s, count) ==
    SubFrom(pattern, repl, s, 1, IF count = 0 THEN -1 ELSE count)

\* ---------------------------------------------------------------------
\* utils/sql_validator.py

mkLIMIT == <<" ", "L", "I", "M", "I", "T", " ">>
mkDATE_SUB == <<"D", "A", "T", "E", "_", "S", "U", "B", "(">>
mkDATE_ADD == <<"D", "A", "T", "E", "_", "A", "D", "D", "(">>
mkDATEADD == <<"D", "A", "T", "E", "A", "D", "D", "(">>
mkCURRENT_DATE == <<"C", "U", "R", "R", "E", "N", "T", "_", "D", "A", "T", "E">>
mkGETDATE == <<"G", "E", "T", "D", "A", "T", "E", "(", ")">>
StructureKeywords == {<<"S", "E", "L", "E", "C", "T">>,
                      <<"I", "N", "S", "E", "R", "T">>,
                      <<"U", "P", "D", "A", "T", "E">>,
                      <<"D", "E", "L", "E", "T", "E">>}

LimitIssue == "Use 'TOP N' instead of 'LIMIT' for T-SQL"
DateSubIssue == "Use 'DATEADD(DAY, -N, date)' instead of 'DATE_SUB' for T-SQL"
DateAddIssue == "Use 'DATEADD()' instead of 'DATE_ADD()' for T-SQL"
CurrentDateIssue ==
    "Use 'GETDATE()' or 'CAST(GETDATE() AS DATE)' instead of 'CURRENT_DATE' for T-SQL"
StructureIssue == "Query must start with SELECT, INSERT, UPDATE, or DELETE"

\* issues.append(issue) when the condition holds
AppendIf(issues, cond, issue) == IF cond THEN Append(issues, issue) ELSE issues

validate_sql_syntax(sql) ==
    LET sql_upper == Upper(sql)
        i1 == AppendIf(<<>>, Contains(mkLIMIT, sql_upper), LimitIssue)
        i2 == AppendIf(i1, Contains(mkDATE_SUB, sql_upper), DateSubIssue)
        i3 == AppendIf(i2, /\ Contains(mkDATE_ADD, sql_upper)
                           /\ ~Contains(mkDATEADD, sql_upper),
                       DateAddIssue)
        i4 == AppendIf(i3, /\ Contains(mkCURRENT_DATE, sql_upper)
                           /\ ~Contains(mkGETDATE, sql_upper),
                       CurrentDateIssue)
        issues == AppendIf(i4, ~\E keyword \in StructureKeywords :
                                    Contains(keyword, sql_upper),
                           StructureIssue)
    IN  [valid |-> Len(issues) = 0, issues |-> issues]

txSELECT_TOP == <<"S", "E", "L", "E", "C", "T", " ", "T", "O", "P", " ">>
txSpace == <<" ">>
txDATEADD_DAY == <<"D", "A", "T", "E", "A", "D", "D", "(", "D", "A", "Y", ",", " ", "-">>
txComma == <<",", " ">>
txClose == <<")">>
txOpen == <<"(">>
txCAST_GETDATE == <<"C", "A", "S", "T", "(", "G", "E", "T", "D", "A", "T", "E", "(", ")",
      " ", "A", "S", " ", "D", "A", "T", "E", ")">>

convert_spark_to_tsql(sql) ==
    LET limit_match == re_search(LimitPattern, sql)
        limited ==
            IF limit_match.found
            THEN LET n == limit_match.groups[1]
                 IN  re_sub(SelectPattern,
                            <<Text(txSELECT_TOP \o n \o txSpace)>>,
                            re_sub(LimitPattern, <<>>, sql, 0), 1)
            ELSE sql
        dated == re_sub(DateSubPattern,
                        <<Text(txDATEADD_DAY), Group(2), Text(txComma),
                          Group(1), Text(txClose)>>,
                        limited, 0)
    IN  re_sub(CurrentDatePattern, <<Text(txCAST_GETDATE)>>, dated, 0)

\* ---------------------------------------------------------------------
\* utils/pbip_extractor.py

fnDISTINCTCOUNT == <<"D", "I", "S", "T", "I", "N", "C", "T", "C", "O", "U", "N", "T">>
fnSUM == <<"S", "U", "M">>
fnAVERAGE == <<"A", "V", "E", "R", "A", "G", "E">>
fnCOUNT == <<"C", "O", "U", "N", "T">>
fnMAX == <<"M", "A", "X">>
fnMIN == <<"M", "I", "N">>
mkSUM == <<"S", "U", "M", "(">>
mkSUMX == <<"S", "U", "M", "X">>
mkAVERAGE == <<"A", "V", "E", "R", "A", "G", "E", "(">>
mkCOUNT == <<"C", "O", "U", "N", "T", "(">>
mkMAX == <<"M", "A", "X", "(">>
mkMIN == <<"M", "I", "N", "(">>

qHowManyTotal == <<"H", "o", "w", " ", "m", "a", "n", "y", " ", "t", "o", "t", "a", "l",
      " ">>
qWhatIsTheTotal == <<"W", "h", "a", "t", " ", "i", "s", " ", "t", "h", "e", " ", "t", "o",
      "t", "a", "l", " ">>
qWhatIsTheAverage == <<"W", "h", "a", "t", " ", "i", "s", " ", "t", "h", "e", " ", "a", "v",
      "e", "r", "a", "g", "e", " ">>
qHowMany == <<"H", "o", "w", " ", "m", "a", "n", "y", " ">>
qWhatIsTheMaximum == <<"W", "h", "a", "t", " ", "i", "s", " ", "t", "h", "e", " ", "m", "a",
      "x", "i", "m", "u", "m", " ">>
qWhatIsTheMinimum == <<"W", "h", "a", "t", " ", "i", "s", " ", "t", "h", "e", " ", "m", "i",
      "n", "i", "m", "u", "m", " ">>
qMark == <<"?">>

sqlCountDistinct == <<"S", "E", "L", "E", "C", "T", " ", "C", "O", "U", "N", "T", "(", "D",
      "I", "S", "T", "I", "N", "C", "T", " ">>
sqlSum == <<"S", "E", "L", "E", "C", "T", " ", "S", "U", "M", "(">>
sqlAvgCast == <<"S", "E", "L", "E", "C", "T", " ", "A", "V", "G", "(", "C", "A", "S",
      "T", "(">>
sqlCount == <<"S", "E", "L", "E", "C", "T", " ", "C", "O", "U", "N", "T", "(">>
sqlMax == <<"S", "E", "L", "E", "C", "T", " ", "M", "A", "X", "(">>
sqlMin == <<"S", "E", "L", "E", "C", "T", " ", "M", "I", "N", "(">>
sqlAs == <<")", " ", "A", "S", " ">>
sqlAsFloatAs == <<" ", "A", "S", " ", "F", "L", "O", "A", "T", ")", ")", " ", "A", "S",
      " ">>
sqlFromDbo == <<" ", "F", "R", "O", "M", " ", "d", "b", "o", ".">>

\* The dictionary returned for a match: table, column = match.groups()
Example(match, ask, select, as, measure_name, dax_expression) ==
    LET table == match.groups[1]
        column == match.groups[2]
    IN  Some([question |-> ask \o Lower(measure_name) \o qMark,
              sql |-> select \o column \o as \o measure_name
                        \o sqlFromDbo \o table,
              source |-> "pbip_measure",
              original_dax |-> dax_expression])

\* A branch that, when its own pattern is not found, goes on to the COUNT
\* pattern instead of falling through to the final "return None".
BranchKeepsLooking(func, ask, select, as, measure_name, dax_expression) ==
    LET match == re_search(AggregatePattern(func), dax_expression)
        later == re_search(AggregatePattern(fnCOUNT), dax_expression)
    IN  IF match.found
        THEN Example(match, ask, select, as, measure_name, dax_expression)
        ELSE IF later.found
             THEN Example(later, qHowMany, sqlCount, sqlAs, measure_name,
                          dax_expression)
             ELSE None

\* One branch of the if/elif chain once its condition held: the dictionary
\* when the branch's pattern is found, else the final "return None".
Branch(func, ask, select, as, measure_name, dax_expression) ==
    LET match == re_search(AggregatePattern(func), dax_expression)
    IN  IF match.found
        THEN Example(match, ask, select, as, measure_name, dax_expression)
        ELSE None

convert_dax_to_example(measure_name, dax_expression) ==
    LET dax_upper == Upper(dax_expression)
    IN  IF Contains(fnDISTINCTCOUNT, dax_upper)
        THEN Branch(fnDISTINCTCOUNT, qHowManyTotal, sqlCountDistinct, sqlAs,
                    measure_name, dax_expression)
        ELSE IF Contains(mkSUM, dax_upper) /\ ~Contains(mkSUMX, dax_upper)
        THEN Branch(fnSUM, qWhatIsTheTotal, sqlSum, sqlAs,
                    measure_name, dax_expression)
        ELSE IF Contains(mkAVERAGE, dax_upper)
        THEN Branch(fnAVERAGE, qWhatIsTheAverage, sqlAvgCast, sqlAsFloatAs,
                    measure_name, dax_expression)
        ELSE IF /\ Contains(mkCOUNT, dax_upper)
                /\ ~Contains(fnDISTINCTCOUNT, dax_upper)
        THEN Branch(fnCOUNT, qHowMany, sqlCount, sqlAs,
                    measure_name, dax_expression)
        ELSE IF Contains(mkMAX, dax_upper)
        THEN Branch(fnMAX, qWhatIsTheMaximum, sqlMax, sqlAs,
                    measure_name, dax_expression)
        ELSE IF Contains(mkMIN, dax_upper)
        THEN Branch(fnMIN, qWhatIsTheMinimum, sqlMin, sqlAs,
                    measure_name, dax_expression)
        ELSE None

\* ---------------------------------------------------------------------
\* Calls of the utilities

NoValidation == [valid |-> FALSE, issues |-> <<>>]
NoSqlCall == [op |-> "none", sql |-> <<>>, validation |-> NoValidation,
              converted |-> <<>>, revalidation |-> NoValidation]
NoDaxCall == [op |-> "none", measure_name |-> <<>>, dax_expression |-> <<>>,
              result |-> None]

NoCall == [op |-> "none", cases |-> <<>>, outs |-> <<>>,
           tolerance |-> TOLERANCE, prior |-> 0, propagated |-> FALSE]

NoLearning == [learned |-> 0, skipped |-> 0]

\* ../config/failures.json before any notebook has written it, and after
\* json.dump(records, f) has.  The records are dictionaries of strings,
\* floats and None, which json.load gives back as they were dumped.
NoFile == [exists |-> FALSE, records |-> <<>>]
FileWith(records) == [exists |-> TRUE, records |-> records]

\* The `failures` of notebook 06 before and after `failures = load_failures()`.
NotLoaded == [done |-> FALSE, value |-> <<>>]
Loaded(records) == [done |-> TRUE, value |-> records]

\* load_failures(): [] when the file does not exist, else its content.
load_failures(file) == IF ~file.exists THEN <<>> ELSE file.records

\* `if failures: json.dump(failures, open("../config/failures.json", "w"))`
SaveFailures(file, fs) == IF fs # <<>> THEN FileWith(fs) ELSE file

\* continuous_improvement_cycle has no return statement: when it returns,
\* it returns None.  Before that, and when an exception leaves it, nothing
\* is returned.
NotReturned == [done |-> FALSE, value |-> None]
ReturnedNone == [done |-> TRUE, value |-> None]

\* The value the cycle has returned once it stands at position p.
ReturnAt(p, before) ==
    IF p \in {"target_reached", "no_failures", "exhausted"}
    THEN ReturnedNone ELSE before

Init ==
    /\ results = <<>>
    /\ summary = NoSummary
    /\ call = NoCall
    /\ pc = "idle"
    /\ iteration = 0
    /\ max_iterations = 0
    /\ test_cases = <<>>
    /\ failures = <<>>
    /\ learning_result = NoLearning
    /\ add_calls = <<>>
    /\ evals = 0
    /\ publishes = 0
    /\ accuracies = <<>>
    /\ returned = NotReturned
    /\ sql_call = NoSqlCall
    /\ dax_call = NoDaxCall
    /\ failures_json = NoFile
    /\ loaded_failures = NotLoaded

-----------------------------------------------------------------------------
(* The tester used on its own (notebook 05)                                 *)

\* tester.test_single_case(test_case, tolerance)
TestSingleCaseCall(test_case, out, tolerance) ==
    \E r \in {test_single_case(results, test_case, out.agent, out.dax,
                                tolerance)} :
        /\ results' = r.results
        /\ call' = [op |-> "test_single_case", cases |-> <<test_case>>,
                    outs |-> <<out>>, tolerance |-> tolerance,
                    prior |-> Len(results), propagated |-> r.propagated]
        /\ UNCHANGED <<utilVars, notebookVars, summary, cycleVars>>

\* tester.run_test_suite(cases)
RunTestSuiteCall(cases, outs) ==
    \E r \in {run_test_suite(results, cases, outs)} :
        /\ results' = r.results
        /\ summary' = r.summary
        /\ call' = [op |-> "run_test_suite", cases |-> cases, outs |-> outs,
                    tolerance |-> TOLERANCE, prior |-> Len(results),
                    propagated |-> r.propagated]
        /\ UNCHANGED <<utilVars, notebookVars, cycleVars>>

TestOne ==
    /\ Len(results) < MaxResults
    /\ \E test_case \in SuiteCases, out \in SuiteOuts :
          TestSingleCaseCall(test_case, out, TOLERANCE)

RunSuite ==
    \E cases \in SeqsUpTo(SuiteCases, MaxCases) :
      \E outs \in [1..Len(cases) -> SuiteOuts] :
        RunTestSuiteCall(cases, outs)

TesterNext == TestOne \/ RunSuite

TesterSpec == Init /\ [][TesterNext]_vars

\* One comparison on a new tester, over the wider set of answers.
CompareOne ==
    /\ call.op = "none"
    /\ \E test_case \in SuiteCases, agent_out \in CompareAgentOuts,
          dax_out \in CompareDaxOuts, tolerance \in Tolerances :
          TestSingleCaseCall(test_case, Out(agent_out, dax_out), tolerance)

CompareNext == CompareOne

CompareSpec == Init /\ [][CompareNext]_vars

\* The answers the services give when the notebook runs TEST_CASES: each
\* case answered right or wrong, or the first case not answered because
\* one of the services is down.
AnsweredOuts ==
    {Out(AgentValue(100000), DaxReturns(100000)),
     Out(AgentValue(102000), DaxReturns(100000))}

NotebookOuts ==
    [1..Len(TEST_CASES) -> AnsweredOuts]
    \cup {[i \in 1..Len(TEST_CASES) |->
             IF i = 1 THEN down ELSE Out(AgentValue(100000), DaxReturns(100000))] :
          down \in SuiteOuts \ AnsweredOuts}

\* The "Run Accuracy Tests" cell of notebook 05: when sempy is there, a new
\* tester runs TEST_CASES and the failures, if there are any, are saved.
RunAccuracyTests ==
    \E SEMPY_AVAILABLE \in BOOLEAN, outs \in NotebookOuts :
      IF ~SEMPY_AVAILABLE
      THEN /\ call' = [NoCall EXCEPT !.op = "accuracy_tests_skipped"]
           /\ UNCHANGED <<results, summary, utilVars, cycleVars,
                          notebookVars>>
      ELSE \E r \in {run_test_suite(<<>>, TEST_CASES, outs)} :
             /\ results' = r.results
             /\ summary' = r.summary
             /\ call' = [op |-> "run_accuracy_tests", cases |-> TEST_CASES,
                         outs |-> outs, tolerance |-> TOLERANCE, prior |-> 0,
                         propagated |-> r.propagated]
             /\ failures_json' =
                  IF r.propagated THEN failures_json
                  ELSE SaveFailures(failures_json, get_failures(r.results))
             /\ UNCHANGED <<utilVars, cycleVars, loaded_failures>>

\* The "Load Failed Tests" cell of notebook 06: failures = load_failures()
LoadFailures ==
    /\ loaded_failures' = Loaded(load_failures(failures_json))
    /\ UNCHANGED <<testerVars, cycleVars, utilVars, failures_json>>

NotebookNext == RunAccuracyTests \/ LoadFailures

NotebookSpec == Init /\ [][NotebookNext]_vars

-----------------------------------------------------------------------------
(* continuous_improvement_cycle (notebook 06)                               *)

MaxIter == 3         \* largest max_iterations handed to the cycle
BigSuiteLen == 20    \* length of the long suite (one failure in 20 is 95%)

\* A case whose metric has a template and one whose metric has none.
CycleCases == {TEST_CASES[1], OtherCase}

BigSuite == [i \in 1..BigSuiteLen |-> TEST_CASES[((i - 1) % 4) + 1]]

\* The suites handed to the cycle: the empty one, every suite of one or two
\* of the cases above, and the long one.
ShortSuites == UNION {[1..k -> CycleCases] : k \in {0, 1, 2}}

Suites == ShortSuites \cup {BigSuite}

PassOut == Out(AgentValue(100000), DaxReturns(100000))

\* Answers for one case during the cycle: a right answer, a wrong answer,
\* the agent is down.
CycleOuts ==
    {PassOut,
     Out(AgentValue(102000), DaxReturns(100000)),
     Out(AgentRaises(AgentDown), DaxReturns(100000))}

\* Answers of the services for a whole suite: every combination for the
\* short suites, at most one case that does not pass for the long one.
SuiteOutsFor(cases) ==
    IF cases \in ShortSuites
    THEN [1..Len(cases) -> CycleOuts]
    ELSE {[i \in 1..Len(cases) |-> PassOut]}
         \cup {[i \in 1..Len(cases) |-> IF i = k THEN o ELSE PassOut] :
                 k \in 1..Len(cases), o \in CycleOuts \ {PassOut}}

Terminal == {"target_reached", "no_failures", "exhausted", "raised"}

\* The call of continuous_improvement_cycle up to the first iteration:
\* a new tester, then the for loop starts (or has nothing to run).
StartCycle ==
    /\ pc = "idle"
    /\ \E cases \in Suites, m \in 0..MaxIter :
          /\ test_cases' = cases
          /\ max_iterations' = m
          /\ iteration' = IF HasNextIteration(0, m) THEN 1 ELSE 0
          /\ pc' = IF HasNextIteration(0, m) THEN "evaluate" ELSE "exhausted"
    /\ results' = <<>>
    /\ returned' = ReturnAt(pc', returned)
    /\ UNCHANGED <<utilVars, notebookVars, summary, call, failures,
                   learning_result, add_calls,
                   evals, publishes, accuracies>>

\* summary = tester.run_test_suite(test_cases), the target check and
\* failures = tester.get_failures() with its emptiness check.
EvaluateStep ==
    /\ pc = "evaluate"
    /\ \E outs \in SuiteOutsFor(test_cases) :
          \E r \in {run_test_suite(results, test_cases, outs)} :
            \E fs \in {get_failures(r.results)} :
              /\ results' = r.results
              /\ summary' = r.summary
              /\ call' = [op |-> "run_test_suite", cases |-> test_cases,
                          outs |-> outs, tolerance |-> TOLERANCE,
                          prior |-> Len(results),
                          propagated |-> r.propagated]
              /\ IF r.propagated
                 THEN pc' = "raised" /\ failures' = failures
                 ELSE IF TargetReached(r.summary)
                      THEN pc' = "target_reached" /\ failures' = failures
                      ELSE /\ failures' = fs
                           /\ pc' = IF fs = <<>> THEN "no_failures"
                                    ELSE "learn"
              /\ accuracies' = IF r.propagated THEN accuracies
                               ELSE Append(accuracies, r.summary.accuracy)
    /\ evals' = evals + 1
    /\ returned' = ReturnAt(pc', returned)
    /\ UNCHANGED <<utilVars, notebookVars, iteration, max_iterations,
                   test_cases, learning_result,
                   add_calls, publishes>>

\* learning_result = self_learn_from_failures(client, failures)
LearnStep ==
    /\ pc = "learn"
    /\ \E adds \in [1..Len(failures) -> {"ok", "raise"}] :
          \E r \in {self_learn_from_failures(failures, adds)} :
              /\ learning_result' =
                   [learned |-> r.learned, skipped |-> r.skipped]
              /\ add_calls' = add_calls \o r.calls
    /\ pc' = "publish"
    /\ UNCHANGED <<utilVars, notebookVars, testerVars, iteration,
                   max_iterations, test_cases,
                   failures, evals, publishes, accuracies, returned>>

\* client.publish() and the step of the for loop.  The call stands outside
\* any try block: an exception it raises leaves the function.
PublishStep ==
    /\ pc = "publish"
    /\ publishes' = publishes + 1
    /\ \E published \in {"ok", "raise"} :
          IF published = "raise"
          THEN pc' = "raised" /\ iteration' = iteration
          ELSE IF HasNextIteration(iteration, max_iterations)
               THEN pc' = "evaluate" /\ iteration' = iteration + 1
               ELSE pc' = "exhausted" /\ iteration' = iteration
    /\ returned' = ReturnAt(pc', returned)
    /\ UNCHANGED <<utilVars, notebookVars, testerVars, max_iterations,
                   test_cases, failures,
                   learning_result, add_calls, evals, accuracies>>

Next == StartCycle \/ EvaluateStep \/ LearnStep \/ PublishStep

Spec == Init /\ [][Next]_vars

\* Every call of the cycle returns, so a step that can be taken is taken.
FairSpec == Spec /\ WF_vars(Next)

\* ---------------------------------------------------------------------
\* The utilities used on their own

\* The test_queries of sql_validator's example run.
test_queries ==
    <<<<"S", "E", "L", "E", "C", "T", " ", "*", " ", "F", "R", "O", "M", " ",
      "d", "b", "o", ".", "U", "s", "e", "r", "s", " ", "L", "I", "M", "I",
      "T", " ", "1", "0">>,
      <<"S", "E", "L", "E", "C", "T", " ", "*", " ", "F", "R", "O", "M", " ",
      "d", "b", "o", ".", "U", "s", "e", "r", "s", " ", "W", "H", "E", "R",
      "E", " ", "D", "a", "t", "e", " ", ">", "=", " ", "D", "A", "T", "E",
      "_", "S", "U", "B", "(", "C", "U", "R", "R", "E", "N", "T", "_", "D",
      "A", "T", "E", ",", " ", "7", ")">>,
      <<"S", "E", "L", "E", "C", "T", " ", "T", "O", "P", " ", "1", "0", " ",
      "*", " ", "F", "R", "O", "M", " ", "d", "b", "o", ".", "U", "s", "e",
      "r", "s", " ", "W", "H", "E", "R", "E", " ", "D", "a", "t", "e", " ",
      ">", "=", " ", "D", "A", "T", "E", "A", "D", "D", "(", "D", "A", "Y",
      ",", " ", "-", "7", ",", " ", "G", "E", "T", "D", "A", "T", "E", "(",
      ")", ")">>>>

\* Statement heads and tails the queries are put together from.
SqlHeads ==
    {<<"S", "E", "L", "E", "C", "T", " ", "*", " ", "F", "R", "O", "M", " ",
      "d", "b", "o", ".", "U", "s", "e", "r", "s">>,
     <<"s", "e", "l", "e", "c", "t", " ", "I", "d", " ", "f", "r", "o", "m",
      " ", "d", "b", "o", ".", "U", "s", "e", "r", "s">>,
     <<"D", "R", "O", "P", " ", "T", "A", "B", "L", "E", " ", "s", "e", "l",
      "e", "c", "t", "e", "d", "_", "r", "o", "w", "s">>,
     <<"D", "R", "O", "P", " ", "T", "A", "B", "L", "E", " ", "U", "s", "e",
      "r", "s">>}
SqlTails ==
    {<<>>,
     <<" ", "L", "I", "M", "I", "T", " ", "1", "0">>,
     <<" ", "l", "i", "m", "i", "t", " ", "5">>,
     <<"\n", "L", "I", "M", "I", "T", " ", "5">>,
     <<" ", "W", "H", "E", "R", "E", " ", "D", "a", "t", "e", " ", ">", "=",
      " ", "D", "A", "T", "E", "_", "S", "U", "B", "(", "T", "o", "d", "a",
      "y", ",", " ", "7", ")">>,
     <<" ", "W", "H", "E", "R", "E", " ", "D", "a", "t", "e", " ", ">", "=",
      " ", "d", "a", "t", "e", "_", "s", "u", "b", "(", "T", "o", "d", "a",
      "y", ",", " ", "N", ")">>,
     <<" ", "W", "H", "E", "R", "E", " ", "D", "a", "t", "e", " ", ">", "=",
      " ", "D", "A", "T", "E", "_", "S", "U", "B", "(", "C", "U", "R", "R",
      "E", "N", "T", "_", "D", "A", "T", "E", ",", " ", "7", ")">>,
     <<" ", "W", "H", "E", "R", "E", " ", "D", "a", "t", "e", " ", "<", " ",
      "D", "A", "T", "E", "_", "A", "D", "D", "(", "T", "o", "d", "a", "y",
      ",", " ", "1", ")">>,
     <<" ", "W", "H", "E", "R", "E", " ", "D", "a", "t", "e", " ", "<", " ",
      "D", "A", "T", "E", "_", "A", "D", "D", "(", "T", "o", "d", "a", "y",
      ",", " ", "1", ")", " ", "A", "N", "D", " ", "D", "a", "y", " ", ">",
      " ", "D", "A", "T", "E", "A", "D", "D", "(", "D", "A", "Y", ",", " ",
      "1", ",", " ", "T", "o", "d", "a", "y", ")">>,
     <<" ", "W", "H", "E", "R", "E", " ", "D", "a", "t", "e", " ", "=", " ",
      "C", "U", "R", "R", "E", "N", "T", "_", "D", "A", "T", "E">>,
     <<" ", "W", "H", "E", "R", "E", " ", "D", "a", "t", "e", " ", "=", " ",
      "c", "u", "r", "r", "e", "n", "t", "_", "d", "a", "t", "e", " ", "A",
      "N", "D", " ", "D", "a", "y", " ", "<", " ", "G", "E", "T", "D", "A",
      "T", "E", "(", ")">>,
     <<" ", "W", "H", "E", "R", "E", " ", "D", "a", "t", "e", " ", ">", "=",
      " ", "D", "A", "T", "E", "A", "D", "D", "(", "D", "A", "Y", ",", " ",
      "-", "7", ",", " ", "G", "E", "T", "D", "A", "T", "E", "(", ")", ")">>}
\* Queries with a LIMIT clause and no SELECT followed by whitespace, or
\* with several LIMIT clauses.
LimitQueries ==
    {<<"U", "P", "D", "A", "T", "E", " ", "U", "s", "e", "r", "s", " ", "S",
      "E", "T", " ", "A", "c", "t", "i", "v", "e", " ", "=", " ", "0", " ",
      "L", "I", "M", "I", "T", " ", "5">>,
     <<"S", "E", "L", "E", "C", "T", "(", "I", "d", ")", " ", "F", "R", "O",
      "M", " ", "d", "b", "o", ".", "U", "s", "e", "r", "s", " ", "L", "I",
      "M", "I", "T", " ", "4">>,
     <<"S", "E", "L", "E", "C", "T", " ", "I", "d", " ", "F", "R", "O", "M",
      " ", "d", "b", "o", ".", "U", "s", "e", "r", "s", " ", "L", "I", "M",
      "I", "T", " ", "5", " ", "U", "N", "I", "O", "N", " ", "S", "E", "L",
      "E", "C", "T", " ", "I", "d", " ", "F", "R", "O", "M", " ", "d", "b",
      "o", ".", "G", "u", "e", "s", "t", "s", " ", "L", "I", "M", "I", "T",
      " ", "7">>}

\* Queries with DATE_SUB calls: DateHead, then NAME(date,N) or NAME(date, N),
\* alone or followed by a second call.
DateHead == <<"S", "E", "L", "E", "C", "T", " ", "*", " ", "F", "R", "O", "M", " ",
      "d", "b", "o", ".", "U", "s", "e", "r", "s", " ", "W", "H", "E", "R",
      "E", " ", "D", "a", "t", "e", " ", ">", "=", " ">>
DateAnd == <<" ", "A", "N", "D", " ", "D", "a", "y", " ", ">", "=", " ">>
DateSubNames == {<<"D", "A", "T", "E", "_", "S", "U", "B">>, <<"d", "a", "t", "e", "_", "s", "u", "b">>}
DateArgs == {<<"T", "o", "d", "a", "y">>, <<"C", "U", "R", "R", "E", "N", "T", "_", "D", "A", "T", "E">>, <<"C", "O", "A", "L", "E", "S", "C", "E", "(", "D", "a", "y", ",", " ",
      "T", "o", "d", "a", "y", ")">>}
DateGaps == {<<>>, <<" ">>}
DateOffsets == {<<"7">>, <<"3", "0">>}
txArgComma == <<",">>
DateSubCall(name, date, gap, offset) ==
    name \o txOpen \o date \o txArgComma \o gap \o offset \o txClose
DateSubCalls ==
    {DateSubCall(name, date, gap, offset) :
        name \in DateSubNames, date \in DateArgs, gap \in DateGaps,
        offset \in DateOffsets}
SecondCall == <<"D", "A", "T", "E", "_", "S", "U", "B", "(", "C", "U", "R", "R", "E",
      "N", "T", "_", "D", "A", "T", "E", ",", " ", "1", ")">>
DateQueries ==
    {DateHead \o first : first \in DateSubCalls}
      \cup {DateHead \o first \o DateAnd \o SecondCall :
               first \in DateSubCalls}

SqlQueries ==
    {test_queries[i] : i \in DOMAIN test_queries}
      \cup {head \o tail : head \in SqlHeads, tail \in SqlTails}
      \cup LimitQueries
      \cup DateQueries

\* syntax_check = validate_sql_syntax(query)
ValidateSql ==
    /\ sql_call.op = "none"
    /\ \E query \in SqlQueries :
         \E v \in {validate_sql_syntax(query)} :
           sql_call' = [NoSqlCall EXCEPT !.op = "validate_sql_syntax",
                                         !.sql = query, !.validation = v]
    /\ UNCHANGED <<testerVars, cycleVars, notebookVars, dax_call>>

\* converted = convert_spark_to_tsql(query)
ConvertSql ==
    /\ sql_call.op = "validate_sql_syntax"
    /\ \E c \in {convert_spark_to_tsql(sql_call.sql)} :
         sql_call' = [sql_call EXCEPT !.op = "convert_spark_to_tsql",
                                      !.converted = c]
    /\ UNCHANGED <<testerVars, cycleVars, notebookVars, dax_call>>

\* validate_sql_syntax(converted): the caller re-checks the rewritten query
RevalidateSql ==
    /\ sql_call.op = "convert_spark_to_tsql"
    /\ \E v \in {validate_sql_syntax(sql_call.converted)} :
         sql_call' = [sql_call EXCEPT !.op = "revalidate",
                                      !.revalidation = v]
    /\ UNCHANGED <<testerVars, cycleVars, notebookVars, dax_call>>

SqlNext == ValidateSql \/ ConvertSql \/ RevalidateSql

SqlSpec == Init /\ [][SqlNext]_vars

\* The sample_measures of pbip_extractor's example run.
sample_measures ==
    <<[name |-> <<"T", "o", "t", "a", "l", "U", "s", "e", "r", "s">>,
       expression |-> <<"D", "I", "S", "T", "I", "N", "C", "T", "C", "O", "U", "N", "T", "(",
      "U", "s", "a", "g", "e", "M", "e", "t", "r", "i", "c", "s", "[", "U",
      "s", "e", "r", "I", "d", "]", ")">>],
      [name |-> <<"T", "o", "t", "a", "l", "S", "e", "s", "s", "i", "o", "n", "s">>,
       expression |-> <<"S", "U", "M", "(", "U", "s", "a", "g", "e", "M", "e", "t", "r", "i",
      "c", "s", "[", "S", "e", "s", "s", "i", "o", "n", "s", "]", ")">>],
      [name |-> <<"A", "v", "g", "S", "a", "t", "i", "s", "f", "a", "c", "t", "i", "o",
      "n">>,
       expression |-> <<"A", "V", "E", "R", "A", "G", "E", "(", "U", "s", "a", "g", "e", "M",
      "e", "t", "r", "i", "c", "s", "[", "S", "a", "t", "i", "s", "f", "a",
      "c", "t", "i", "o", "n", "R", "a", "t", "e", "]", ")">>]>>

\* The six functions in the spellings the expressions use.
DaxSpellings ==
    {fnDISTINCTCOUNT, fnSUM, fnAVERAGE, fnCOUNT, fnMAX, fnMIN,
     <<"D", "i", "s", "t", "i", "n", "c", "t", "C", "o", "u", "n", "t">>,
     <<"S", "u", "m">>, <<"a", "v", "e", "r", "a", "g", "e">>,
     <<"C", "o", "u", "n", "t">>, <<"m", "a", "x">>, <<"M", "i", "n">>}
DaxTables ==
    {<<"U", "s", "a", "g", "e", "M", "e", "t", "r", "i", "c", "s">>,
     <<"D", "i", "s", "t", "i", "n", "c", "t", "C", "o", "u", "n", "t", "U",
      "s", "e", "r", "s">>,
     <<"S", "u", "m", "X">>}
DaxColumns == {<<"U", "s", "e", "r", "I", "d">>, <<"S", "e", "s", "s", "i", "o", "n", "s">>}
DaxMeasureNames == {<<"T", "o", "t", "a", "l", "U", "s", "e", "r", "s">>, <<"P", "e", "a", "k", "_", "2", "0", "2", "4">>}

txBracket == <<"[">>
txBracketClose == <<"]", ")">>

\* The text FUNC(Table[Column])
DaxCall(func, table, column) ==
    func \o txOpen \o table \o txBracket \o column \o txBracketClose

\* Expressions outside the six shapes.
OtherExpressions ==
    {<<>>,
     <<"M", "E", "D", "I", "A", "N", "(", "U", "s", "a", "g", "e", "M", "e",
      "t", "r", "i", "c", "s", "[", "S", "e", "s", "s", "i", "o", "n", "s",
      "]", ")">>,
     <<"S", "U", "M", "(", "U", "s", "a", "g", "e", "M", "e", "t", "r", "i",
      "c", "s", "[", "S", "e", "s", "s", "i", "o", "n", " ", "C", "o", "u",
      "n", "t", "]", ")">>,
     <<"S", "U", "M", "X", "(", "U", "s", "a", "g", "e", "M", "e", "t", "r",
      "i", "c", "s", ",", " ", "U", "s", "a", "g", "e", "M", "e", "t", "r",
      "i", "c", "s", "[", "S", "e", "s", "s", "i", "o", "n", "s", "]", ")">>,
     <<"C", "O", "U", "N", "T", "R", "O", "W", "S", "(", "U", "s", "a", "g",
      "e", "M", "e", "t", "r", "i", "c", "s", ")">>,
     <<"1", " ", "+", " ", "2">>}

\* Expressions in which several markers or shapes occur.
CompoundExpressions ==
    {<<"C", "O", "U", "N", "T", "(", "U", "s", "a", "g", "e", "M", "e", "t",
      "r", "i", "c", "s", "[", "U", "s", "e", "r", "I", "d", "]", ")", " ",
      "+", " ", "S", "U", "M", "(", "U", "s", "a", "g", "e", "M", "e", "t",
      "r", "i", "c", "s", "[", "S", "e", "s", "s", "i", "o", "n", "s", "]",
      ")">>,
     <<"M", "I", "N", "(", "U", "s", "a", "g", "e", "M", "e", "t", "r", "i",
      "c", "s", "[", "S", "e", "s", "s", "i", "o", "n", "s", "]", ")", " ",
      "+", " ", "M", "A", "X", "(", "U", "s", "a", "g", "e", "M", "e", "t",
      "r", "i", "c", "s", "[", "S", "e", "s", "s", "i", "o", "n", "s", "]",
      ")">>,
     <<"D", "I", "V", "I", "D", "E", "(", "C", "O", "U", "N", "T", "(", "U",
      "s", "a", "g", "e", "M", "e", "t", "r", "i", "c", "s", "[", "U", "s",
      "e", "r", "I", "d", "]", ")", ",", " ", "D", "I", "S", "T", "I", "N",
      "C", "T", "C", "O", "U", "N", "T", "(", "U", "s", "a", "g", "e", "M",
      "e", "t", "r", "i", "c", "s", "[", "R", "e", "g", "i", "o", "n", "]",
      ")", ")">>,
     <<"D", "I", "S", "T", "I", "N", "C", "T", "C", "O", "U", "N", "T", "(",
      "U", "s", "a", "g", "e", "M", "e", "t", "r", "i", "c", "s", ")", " ",
      "+", " ", "C", "O", "U", "N", "T", "(", "U", "s", "a", "g", "e", "M",
      "e", "t", "r", "i", "c", "s", "[", "U", "s", "e", "r", "I", "d", "]",
      ")">>,
     <<"S", "U", "M", "X", "(", "U", "s", "a", "g", "e", "M", "e", "t", "r",
      "i", "c", "s", ",", " ", "1", ")", " ", "+", " ", "S", "U", "M", "(",
      "U", "s", "a", "g", "e", "M", "e", "t", "r", "i", "c", "s", "[", "S",
      "e", "s", "s", "i", "o", "n", "s", "]", ")">>,
     <<"A", "V", "E", "R", "A", "G", "E", "(", "U", "s", "a", "g", "e", "M",
      "e", "t", "r", "i", "c", "s", ")", " ", "+", " ", "M", "A", "X", "(",
      "U", "s", "a", "g", "e", "M", "e", "t", "r", "i", "c", "s", "[", "S",
      "e", "s", "s", "i", "o", "n", "s", "]", ")">>,
     <<"C", "A", "L", "C", "U", "L", "A", "T", "E", "(", "A", "V", "E", "R",
      "A", "G", "E", "(", "U", "s", "a", "g", "e", "M", "e", "t", "r", "i",
      "c", "s", "[", "S", "e", "s", "s", "i", "o", "n", "s", "]", ")", ",",
      " ", "M", "I", "N", "(", "U", "s", "a", "g", "e", "M", "e", "t", "r",
      "i", "c", "s", "[", "U", "s", "e", "r", "I", "d", "]", ")", ")">>}

DaxExpressions ==
    {DaxCall(func, table, column) :
        func \in DaxSpellings, table \in DaxTables, column \in DaxColumns}
      \cup {sample_measures[i].expression : i \in DOMAIN sample_measures}
      \cup OtherExpressions
      \cup CompoundExpressions

\* example = convert_dax_to_example(measure["name"], measure["expression"])
ConvertDax ==
    /\ dax_call.op = "none"
    /\ \E measure_name \in DaxMeasureNames, dax_expression \in DaxExpressions :
         \E r \in {convert_dax_to_example(measure_name, dax_expression)} :
           dax_call' = [op |-> "convert_dax_to_example",
                        measure_name |-> measure_name,
                        dax_expression |-> dax_expression,
                        result |-> r]
    /\ UNCHANGED <<testerVars, cycleVars, notebookVars, sql_call>>

\* The characters of the string literals of the test cases and of the
\* templates, for the functions that work on text character by character.
Characters ==
    ("TotalUsers"
       :> <<"T", "o", "t", "a", "l", "U", "s", "e", "r", "s">>)
      @@
    ("AvgSatisfaction"
       :> <<"A", "v", "g", "S", "a", "t", "i", "s", "f", "a", "c", "t",
            "i", "o", "n">>)
      @@
    ("TotalSessions"
       :> <<"T", "o", "t", "a", "l", "S", "e", "s", "s", "i", "o", "n",
            "s">>)
      @@
    ("RegionCount"
       :> <<"R", "e", "g", "i", "o", "n", "C", "o", "u", "n", "t">>)
      @@
    ("EVALUATE ROW(\"TotalUsers\", DISTINCTCOUNT(UsageMetrics[UserId]))"
       :> <<"E", "V", "A", "L", "U", "A", "T", "E", " ", "R", "O", "W",
            "(", "\"", "T", "o", "t", "a", "l", "U", "s", "e", "r", "s",
            "\"", ",", " ", "D", "I", "S", "T", "I", "N", "C", "T", "C",
            "O", "U", "N", "T", "(", "U", "s", "a", "g", "e", "M", "e",
            "t", "r", "i", "c", "s", "[", "U", "s", "e", "r", "I", "d",
            "]", ")", ")">>)
      @@
    ("EVALUATE ROW(\"AvgSatisfaction\", AVERAGE(UsageMetrics[SatisfactionRate]))"
       :> <<"E", "V", "A", "L", "U", "A", "T", "E", " ", "R", "O", "W",
            "(", "\"", "A", "v", "g", "S", "a", "t", "i", "s", "f", "a",
            "c", "t", "i", "o", "n", "\"", ",", " ", "A", "V", "E", "R",
            "A", "G", "E", "(", "U", "s", "a", "g", "e", "M", "e", "t",
            "r", "i", "c", "s", "[", "S", "a", "t", "i", "s", "f", "a",
            "c", "t", "i", "o", "n", "R", "a", "t", "e", "]", ")", ")">>)
      @@
    ("EVALUATE ROW(\"TotalSessions\", SUM(UsageMetrics[Sessions]))"
       :> <<"E", "V", "A", "L", "U", "A", "T", "E", " ", "R", "O", "W",
            "(", "\"", "T", "o", "t", "a", "l", "S", "e", "s", "s", "i",
            "o", "n", "s", "\"", ",", " ", "S", "U", "M", "(", "U", "s",
            "a", "g", "e", "M", "e", "t", "r", "i", "c", "s", "[", "S",
            "e", "s", "s", "i", "o", "n", "s", "]", ")", ")">>)
      @@
    ("EVALUATE ROW(\"RegionCount\", DISTINCTCOUNT(UsageMetrics[Region]))"
       :> <<"E", "V", "A", "L", "U", "A", "T", "E", " ", "R", "O", "W",
            "(", "\"", "R", "e", "g", "i", "o", "n", "C", "o", "u", "n",
            "t", "\"", ",", " ", "D", "I", "S", "T", "I", "N", "C", "T",
            "C", "O", "U", "N", "T", "(", "U", "s", "a", "g", "e", "M",
            "e", "t", "r", "i", "c", "s", "[", "R", "e", "g", "i", "o",
            "n", "]", ")", ")">>)
      @@
    ("SELECT COUNT(DISTINCT UserId) AS TotalUsers FROM dbo.UsageMetrics"
       :> <<"S", "E", "L", "E", "C", "T", " ", "C", "O", "U", "N", "T",
            "(", "D", "I", "S", "T", "I", "N", "C", "T", " ", "U", "s",
            "e", "r", "I", "d", ")", " ", "A", "S", " ", "T", "o", "t",
            "a", "l", "U", "s", "e", "r", "s", " ", "F", "R", "O", "M",
            " ", "d", "b", "o", ".", "U", "s", "a", "g", "e", "M", "e",
            "t", "r", "i", "c", "s">>)
      @@
    ("SELECT AVG(SatisfactionRate) AS AvgSatisfaction FROM dbo.UsageMetrics"
       :> <<"S", "E", "L", "E", "C", "T", " ", "A", "V", "G", "(", "S",
            "a", "t", "i", "s", "f", "a", "c", "t", "i", "o", "n", "R",
            "a", "t", "e", ")", " ", "A", "S", " ", "A", "v", "g", "S",
            "a", "t", "i", "s", "f", "a", "c", "t", "i", "o", "n", " ",
            "F", "R", "O", "M", " ", "d", "b", "o", ".", "U", "s", "a",
            "g", "e", "M", "e", "t", "r", "i", "c", "s">>)
      @@
    ("SELECT SUM(Sessions) AS TotalSessions FROM dbo.UsageMetrics"
       :> <<"S", "E", "L", "E", "C", "T", " ", "S", "U", "M", "(", "S",
            "e", "s", "s", "i", "o", "n", "s", ")", " ", "A", "S", " ",
            "T", "o", "t", "a", "l", "S", "e", "s", "s", "i", "o", "n",
            "s", " ", "F", "R", "O", "M", " ", "d", "b", "o", ".", "U",
            "s", "a", "g", "e", "M", "e", "t", "r", "i", "c", "s">>)
      @@
    ("SELECT COUNT(DISTINCT Region) AS RegionCount FROM dbo.UsageMetrics"
       :> <<"S", "E", "L", "E", "C", "T", " ", "C", "O", "U", "N", "T",
            "(", "D", "I", "S", "T", "I", "N", "C", "T", " ", "R", "e",
            "g", "i", "o", "n", ")", " ", "A", "S", " ", "R", "e", "g",
            "i", "o", "n", "C", "o", "u", "n", "t", " ", "F", "R", "O",
            "M", " ", "d", "b", "o", ".", "U", "s", "a", "g", "e", "M",
            "e", "t", "r", "i", "c", "s">>)

\* convert_dax_to_example(test_case.metric_name, test_case.expected_dax)
ConvertCase ==
    /\ dax_call.op = "none"
    /\ \E i \in DOMAIN TEST_CASES :
         \E r \in {convert_dax_to_example(
                      Characters[TEST_CASES[i].metric_name],
                      Characters[TEST_CASES[i].expected_dax])} :
           dax_call' = [op |-> "convert_dax_to_example",
                        measure_name |-> Characters[TEST_CASES[i].metric_name],
                        dax_expression |->
                            Characters[TEST_CASES[i].expected_dax],
                        result |-> r]
    /\ UNCHANGED <<testerVars, cycleVars, notebookVars, sql_call>>

DaxNext == ConvertDax \/ ConvertCase

DaxSpec == Init /\ [][DaxNext]_vars


-----------------------------------------------------------------------------
(* Properties                                                               *)

\* The inputs and the result of the last direct test_single_case call.
LastAgent == call.outs[1].agent
LastDax == call.outs[1].dax
LastResult == results[Len(results)]
\* The call reached the comparison: both services answered with a number.
Compared ==
    /\ call.op = "test_single_case"
    /\ ~LastAgent.raised
    /\ ~extract_numeric_value(LastAgent).raised
    /\ ~LastDax.raised
ComparedAgent == extract_numeric_value(LastAgent).value
ComparedExpected == LastDax.value

StatusCount(status) ==
    Cardinality({i \in DOMAIN results : results[i].status = status})

\* C1: in run_test_suite an exception of the agent query or of the
\* ground-truth query of a case gives that case an "error" result carrying
\* the exception's message; every case still gets its result and the run
\* returns its summary instead of propagating the exception.
C1_ErrorsContained ==
    call.op = "run_test_suite" =>
        /\ ~call.propagated
        /\ Len(results) = Len(call.cases)
        /\ summary.total = Len(call.cases)
        /\ \A i \in 1..Len(call.cases) :
              LET o == call.outs[i]
              IN  /\ o.agent.raised =>
                        /\ results[i].status = "error"
                        /\ results[i].error = Some(o.agent.exc.msg)
                  /\ (~o.agent.raised /\ o.dax.raised) =>
                        /\ results[i].status = "error"
                        /\ results[i].error = Some(o.dax.exc.msg)

\* A run whose first case met an agent exception and whose second case met
\* a ground-truth exception, both recorded.
C1_Witness ==
    /\ call.op = "run_test_suite"
    /\ Len(call.cases) = 2
    /\ call.outs[1].agent.raised
    /\ ~call.outs[2].agent.raised /\ call.outs[2].dax.raised
    /\ Len(results) = 2
    /\ results[1].status = "error" /\ results[2].status = "error"
    /\ summary.errors = 2

\* C2: with ground truth 0 the case is "pass" when the agent value is
\* exactly 0 and "fail" (not "error") for every other agent value.
C2_ZeroBaseline ==
    (Compared /\ ComparedExpected = 0) =>
        LastResult.status = IF ComparedAgent = 0 THEN "pass" ELSE "fail"

\* C3: for every non-zero ground truth, negative ones included, the recorded
\* relative difference is |agent - expected| / |expected|, never negative,
\* and the case passes iff it is <= tolerance.
C3_RelativeDifference ==
    (Compared /\ ComparedExpected # 0) =>
        LET gap == Abs(ComparedAgent - ComparedExpected)
            base == Abs(ComparedExpected)
            d == LastResult.difference
        IN  /\ d.some
            /\ Abs(d.v.num) = gap /\ Abs(d.v.den) = base
            /\ (d.v.num >= 0 /\ d.v.den > 0) \/ (d.v.num <= 0 /\ d.v.den < 0)
            /\ LastResult.status =
                 IF gap * call.tolerance.den <= call.tolerance.num * base
                 THEN "pass" ELSE "fail"

\* C4: for a positive ground truth the case is "pass" iff
\* |agent - expected| <= tolerance * expected, the boundary included, and
\* "fail" otherwise.
C4_InclusiveBoundary ==
    (Compared /\ ComparedExpected > 0) =>
        LastResult.status =
            IF Abs(ComparedAgent - ComparedExpected) * call.tolerance.den
                 <= call.tolerance.num * ComparedExpected
            THEN "pass" ELSE "fail"

\* Expected 100 and agent 101 under tolerance 0.01: exactly on the boundary.
C4_Witness ==
    /\ Compared
    /\ call.tolerance = TOLERANCE
    /\ ComparedExpected = 100000
    /\ ComparedAgent = 101000
    /\ LastResult.status = "pass"

\* C5: the failures the cycle takes from get_failures and hands to the
\* learning step are exactly the "fail" results of the run just made, never
\* an "error" or a "pass" result.
C5_OnlyFailures ==
    pc = "learn" =>
        /\ Len(results) = Len(test_cases)
        /\ \A i \in DOMAIN failures :
              /\ failures[i].status = "fail"
              /\ \E j \in DOMAIN results : results[j] = failures[i]
        /\ Len(failures) = StatusCount("fail")

\* The learning step is about to run after an evaluation that had both an
\* error and a failure.
C5_Witness ==
    /\ pc = "learn"
    /\ StatusCount("error") > 0
    /\ StatusCount("fail") > 0
    /\ Len(failures) = 1

\* C6: the summary of run_test_suite has total = the number of results of
\* the run and accuracy = passed / total, exactly 0 for an empty suite
\* without a division fault, and always within [0, 1].
C6_Accuracy ==
    call.op = "run_test_suite" =>
        LET a == summary.accuracy
        IN  /\ summary.total = Len(results)
            /\ summary.passed = StatusCount("pass")
            /\ a.den > 0
            /\ a.num * (IF summary.total = 0 THEN 1 ELSE summary.total)
                 = (IF summary.total = 0 THEN 0 ELSE summary.passed) * a.den
            /\ 0 <= a.num /\ a.num <= a.den

\* A run over the empty suite.
C6_Witness ==
    /\ call.op = "run_test_suite"
    /\ call.cases = <<>>
    /\ summary.total = 0
    /\ summary.accuracy.num = 0

\* C7: whatever calls came before, run_test_suite(cases) leaves one result
\* per input case, in the input order, and nothing from earlier runs.
C7_FreshOrderedResults ==
    call.op = "run_test_suite" =>
        /\ Len(results) = Len(call.cases)
        /\ \A i \in 1..Len(call.cases) :
              /\ results[i].question = call.cases[i].question
              /\ results[i].metric = call.cases[i].metric_name

\* A run over two different cases on a tester that already held results.
C7_Witness ==
    /\ call.op = "run_test_suite"
    /\ call.prior > 0
    /\ Len(call.cases) = 2
    /\ call.cases[1] # call.cases[2]
    /\ Len(results) = 2

\* C8: once an evaluation of the cycle reports accuracy >= 0.95 the cycle is
\* at its successful end, and from there no add_example and no publish call
\* is made, even when some case still failed.
C8_StopsAtTarget ==
    [][(evals' > 0 /\ summary'.total > 0
          /\ 100 * summary'.passed >= 95 * summary'.total)
        => /\ pc' = "target_reached"
           /\ pc = "target_reached" =>
                 (add_calls' = add_calls /\ publishes' = publishes)]_vars

\* The cycle ended on the target although one case of the run failed.
C8_Witness ==
    /\ pc = "target_reached"
    /\ summary.failed > 0
    /\ get_failures(results) # <<>>

\* C9: the cycle evaluates the suite at most max_iterations times and then
\* reaches a terminal state.
C9_BoundedIterations ==
    /\ [](evals <= max_iterations)
    /\ <>(pc \in Terminal)

\* The iteration budget ran out after three evaluations below the target.
C9_Witness ==
    /\ pc = "exhausted"
    /\ max_iterations = 3
    /\ evals = 3
    /\ ~(100 * summary.passed >= 95 * summary.total)

\* C10: a failing publish call does not end the cycle: the cycle goes on to
\* the next iteration's evaluation (or ends because the budget is used up).
C10_PublishFailureContained ==
    [][pc = "publish" =>
         pc' = IF iteration < max_iterations THEN "evaluate"
               ELSE "exhausted"]_vars

\* The metric of a failure has an entry in the template table.
HasTemplate(failure) == failure.metric \in DOMAIN templates

\* C11: when an evaluation leaves failures none of which has a corrective
\* template, the cycle ends at that iteration: it does not go on to publish
\* (and to further evaluations).
C11_StopsWithoutTemplates ==
    pc = "publish" => \E i \in DOMAIN failures : HasTemplate(failures[i])

\* C12: when the cycle returns it returns the sequence of its learning
\* outcomes, one per executed iteration, numbered 1, 2, ... in order.
C12_TraceReturned ==
    pc \in {"target_reached", "no_failures", "exhausted"} =>
        /\ returned.done
        /\ returned.value.some
        /\ Len(returned.value.v) = evals
        /\ \A i \in 1..evals : returned.value.v[i].iteration = i

\* A run with max_iterations = 3 whose first evaluation had accuracy 0.5 and
\* whose test cases all have a corrective template.
C13_Scenario ==
    /\ pc # "idle"
    /\ max_iterations = 3
    /\ \A i \in DOMAIN test_cases :
          test_cases[i].metric_name \in DOMAIN templates
    /\ Len(accuracies) >= 1
    /\ 2 * accuracies[1].num = accuracies[1].den

\* C13 as stated: in that scenario the accuracies observed across the
\* iterations never decrease.
C13_NonDecreasing ==
    C13_Scenario =>
        \A i \in 1..(Len(accuracies) - 1) :
            accuracies[i].num * accuracies[i + 1].den
              <= accuracies[i + 1].num * accuracies[i].den

\* C13 as amended: in that scenario the cycle makes at most 3 evaluations
\* and stops at the first one whose accuracy reaches the target; every
\* earlier accuracy was below the target.
C13_HaltsByBudgetOrTarget ==
    C13_Scenario =>
        /\ evals <= 3 /\ iteration <= 3
        /\ \A i \in 1..(Len(accuracies) - 1) :
              100 * accuracies[i].num < 95 * accuracies[i].den
        /\ (100 * accuracies[Len(accuracies)].num
               >= 95 * accuracies[Len(accuracies)].den)
             => pc = "target_reached"

\* The scenario ran through all three iterations without reaching the target.
C13_Witness ==
    /\ C13_Scenario
    /\ pc = "exhausted"
    /\ evals = 3
    /\ Len(accuracies) = 3

\* C19: self_learn_from_failures returns learned + skipped = the number of
\* failures; it calls add_example exactly once for each failure that has a
\* template, in order, and for none of the others; learned counts the calls
\* that returned and skipped every other failure.
C19_LearnedPlusSkipped ==
    [][pc = "learn" =>
         LET new == SubSeq(add_calls', Len(add_calls) + 1, Len(add_calls'))
             templated == SelectSeq(failures, HasTemplate)
             accepted == {i \in DOMAIN new : new[i].accepted}
         IN  /\ learning_result'.learned + learning_result'.skipped
                  = Len(failures)
             /\ Len(add_calls') >= Len(add_calls)
             /\ SubSeq(add_calls', 1, Len(add_calls)) = add_calls
             /\ Len(new) = Len(templated)
             /\ \A i \in DOMAIN new :
                   /\ new[i].question = templated[i].question
                   /\ new[i].sql = templates[templated[i].metric]
             /\ learning_result'.learned = Cardinality(accepted)
             /\ learning_result'.skipped
                  = Len(failures) - Cardinality(accepted)]_vars

\* A learning step over two failures: one learned, one skipped for want of a
\* template.
C19_Witness ==
    /\ pc = "publish"
    /\ Len(failures) = 2
    /\ \E i \in DOMAIN failures : ~HasTemplate(failures[i])
    /\ learning_result = [learned |-> 1, skipped |-> 1]
    /\ Len(add_calls) >= 1 /\ add_calls[Len(add_calls)].accepted

\* C20: the learning and publishing steps are entered only while the
\* iteration count is below max_iterations, so that an evaluation follows.
C20_LearnsOnlyBeforeLastIteration ==
    pc \in {"learn", "publish"} => iteration < max_iterations

\* C18: an agent response without data rows is read as the value 0.0 and
\* classified by the normal rule: "pass" when the ground truth is 0, "fail"
\* against every non-zero ground truth, never "error".
C18_EmptyResponseIsZero ==
    (/\ call.op = "test_single_case"
     /\ ~LastAgent.raised
     /\ Len(LastAgent.data) = 0
     /\ ~LastDax.raised) =>
        /\ LastResult.agent_value = Some(0)
        /\ LastResult.status = IF LastDax.value = 0 THEN "pass" ELSE "fail"

\* The aggregate each of the six functions is to be translated to.
ExpectedAggregate(func) ==
    CASE Upper(func) = fnDISTINCTCOUNT -> [select |-> sqlCountDistinct, as |-> sqlAs]
      [] Upper(func) = fnSUM -> [select |-> sqlSum, as |-> sqlAs]
      [] Upper(func) = fnAVERAGE -> [select |-> sqlAvgCast, as |-> sqlAsFloatAs]
      [] Upper(func) = fnCOUNT -> [select |-> sqlCount, as |-> sqlAs]
      [] Upper(func) = fnMAX -> [select |-> sqlMax, as |-> sqlAs]
      [] Upper(func) = fnMIN -> [select |-> sqlMin, as |-> sqlAs]

\* C14: for every expression FUNC(Table[Column]) with FUNC one of the six
\* functions in any letter case, convert_dax_to_example returns an example
\* whose sql applies the corresponding aggregate to the column, is aliased
\* to the measure name and selects FROM dbo.<table>; for an expression in
\* which none of the six shapes occurs it returns None.
C14_ShapesTranslate ==
    dax_call.op = "convert_dax_to_example" =>
        /\ \A func \in DaxSpellings, table \in DaxTables,
              column \in DaxColumns :
              dax_call.dax_expression = DaxCall(func, table, column) =>
                  /\ dax_call.result.some
                  /\ dax_call.result.v.sql =
                       ExpectedAggregate(func).select \o column
                         \o ExpectedAggregate(func).as
                         \o dax_call.measure_name \o sqlFromDbo \o table
        /\ (\A func \in {fnDISTINCTCOUNT, fnSUM, fnAVERAGE, fnCOUNT,
                          fnMAX, fnMIN} :
               ~re_search(AggregatePattern(func),
                          dax_call.dax_expression).found)
             => dax_call.result = None

\* The four dialect mismatches: the text that marks each and its issue.
MismatchMarkers == <<mkLIMIT, mkDATE_SUB, mkDATE_ADD, mkCURRENT_DATE>>
MismatchIssues ==
    <<LimitIssue, DateSubIssue, DateAddIssue, CurrentDateIssue>>
Mismatches(sql) ==
    {k \in DOMAIN MismatchMarkers : Contains(MismatchMarkers[k], Upper(sql))}

\* C15: for a query that contains exactly one of the four dialect
\* mismatches, validate_sql_syntax reports strictly fewer issues for
\* convert_spark_to_tsql(query) than for the query.
C15_RewriteReducesIssues ==
    (/\ sql_call.op = "revalidate"
     /\ Cardinality(Mismatches(sql_call.sql)) = 1) =>
        Len(sql_call.revalidation.issues) < Len(sql_call.validation.issues)

\* C16: validate_sql_syntax reports the issue of each of the four
\* mismatches exactly when the mismatch occurs in the query, whatever else
\* the query contains, and valid is true iff no issue is reported.
C16_IndependentIssues ==
    sql_call.op # "none" =>
        LET issues == sql_call.validation.issues
        IN  /\ \A k \in DOMAIN MismatchMarkers :
                  (k \in Mismatches(sql_call.sql))
                    <=> (\E i \in DOMAIN issues :
                            issues[i] = MismatchIssues[k])
            /\ sql_call.validation.valid <=> (issues = <<>>)

\* The first word of a query, in upper case.
LeadingKeyword(sql) ==
    LET start == RunEnd(sql, 1, SpaceChars)
    IN  Upper(SubSeq(sql, start, RunEnd(sql, start, WordChars) - 1))

\* C17: validate_sql_syntax reports the structure issue for every query
\* whose leading keyword is not SELECT, INSERT, UPDATE or DELETE.
C17_StructureIssue ==
    (/\ sql_call.op # "none"
     /\ LeadingKeyword(sql_call.sql) \notin StructureKeywords) =>
        \E i \in DOMAIN sql_call.validation.issues :
            sql_call.validation.issues[i] = StructureIssue

\* The rules of convert_dax_to_example in their order of priority: the
\* function whose shape is captured and the example built from the capture.
DaxRules ==
    <<[func |-> fnDISTINCTCOUNT, ask |-> qHowManyTotal,
       select |-> sqlCountDistinct, as |-> sqlAs],
      [func |-> fnSUM, ask |-> qWhatIsTheTotal,
       select |-> sqlSum, as |-> sqlAs],
      [func |-> fnAVERAGE, ask |-> qWhatIsTheAverage,
       select |-> sqlAvgCast, as |-> sqlAsFloatAs],
      [func |-> fnCOUNT, ask |-> qHowMany,
       select |-> sqlCount, as |-> sqlAs],
      [func |-> fnMAX, ask |-> qWhatIsTheMaximum,
       select |-> sqlMax, as |-> sqlAs],
      [func |-> fnMIN, ask |-> qWhatIsTheMinimum,
       select |-> sqlMin, as |-> sqlAs]>>

\* The marker of rule k is present in the upper-cased expression.
MarkerPresent(k, dax_upper) ==
    CASE k = 1 -> Contains(fnDISTINCTCOUNT, dax_upper)
      [] k = 2 -> Contains(mkSUM, dax_upper) /\ ~Contains(mkSUMX, dax_upper)
      [] k = 3 -> Contains(mkAVERAGE, dax_upper)
      [] k = 4 -> Contains(mkCOUNT, dax_upper)
      [] k = 5 -> Contains(mkMAX, dax_upper)
      [] k = 6 -> Contains(mkMIN, dax_upper)

\* The shape of rule k occurs in the expression, with its capture.
ShapeOf(k, dax_expression) ==
    re_search(AggregatePattern(DaxRules[k].func), dax_expression)

\* The sql of the example of rule k for the capture of its shape.
SqlOf(k, measure_name, dax_expression) ==
    DaxRules[k].select \o ShapeOf(k, dax_expression).groups[2]
      \o DaxRules[k].as \o measure_name \o sqlFromDbo
      \o ShapeOf(k, dax_expression).groups[1]

\* The call returned an example with the question and aggregate of rule k.
ResultIsExampleOf(k) ==
    /\ dax_call.result.some
    /\ dax_call.result.v.question
         = DaxRules[k].ask \o Lower(dax_call.measure_name) \o qMark
    /\ SubSeq(dax_call.result.v.sql, 1, Len(DaxRules[k].select) + 1)
         = Append(DaxRules[k].select,
                  At(dax_call.result.v.sql, Len(DaxRules[k].select) + 1))
    /\ \/ k # 4
       \/ SubSeq(dax_call.result.v.sql, 1, Len(sqlCountDistinct))
            # sqlCountDistinct

\* C21: convert_dax_to_example applies the rule of the first marker present
\* in the order DISTINCTCOUNT, SUM( without SUMX, AVERAGE(, COUNT(, MAX(,
\* MIN(: the result is that rule's example when its shape is captured and
\* None when it is not, whatever lower-priority shapes occur; with
\* DISTINCTCOUNT present the plain COUNT example is never returned and with
\* SUMX present the SUM example is never returned.
C21_FixedPriority ==
    dax_call.op = "convert_dax_to_example" =>
        LET e == dax_call.dax_expression
            present == {k \in DOMAIN DaxRules : MarkerPresent(k, Upper(e))}
        IN  /\ present = {} => dax_call.result = None
            /\ \A k \in present :
                  (\A j \in present : k <= j) =>
                     IF ShapeOf(k, e).found
                     THEN /\ dax_call.result.some
                          /\ dax_call.result.v.sql
                               = SqlOf(k, dax_call.measure_name, e)
                          /\ dax_call.result.v.question
                               = DaxRules[k].ask
                                   \o Lower(dax_call.measure_name) \o qMark
                     ELSE dax_call.result = None
            /\ Contains(fnDISTINCTCOUNT, Upper(e)) => ~ResultIsExampleOf(4)
            /\ Contains(mkSUMX, Upper(e)) => ~ResultIsExampleOf(2)

\* An expression whose DISTINCTCOUNT marker fails the capture while the
\* COUNT shape occurs in it: the result is None.
C21_Witness ==
    /\ dax_call.op = "convert_dax_to_example"
    /\ Contains(fnDISTINCTCOUNT, Upper(dax_call.dax_expression))
    /\ ~ShapeOf(1, dax_call.dax_expression).found
    /\ ShapeOf(4, dax_call.dax_expression).found
    /\ dax_call.result = None

\* The numeric cells of a row, in order.
NumericCells(row) == SelectSeq(row.cells, LAMBDA cell : cell.isnum)

\* C22: the agent value compared is the first numeric cell of the first
\* returned row, for tuple rows and for dict rows alike, and a first row
\* without cells gives the 0.0 default; in both cases the result is "pass"
\* or "fail", not "error".
C22_FirstNumericCell ==
    (/\ call.op = "test_single_case"
     /\ ~LastAgent.raised
     /\ ~LastDax.raised
     /\ Len(LastAgent.data) > 0
     /\ \/ Len(LastAgent.data[1].cells) = 0
        \/ Len(NumericCells(LastAgent.data[1])) > 0) =>
        /\ LastResult.agent_value =
              IF Len(LastAgent.data[1].cells) = 0 THEN Some(0)
              ELSE Some(NumericCells(LastAgent.data[1])[1].v)
        /\ LastResult.status \in {"pass", "fail"}

\* convert_spark_to_tsql has been applied to the query.
Converted == sql_call.op \in {"convert_spark_to_tsql", "revalidate"}

\* The N of every LIMIT clause of a query (each match of \sLIMIT\s+\d+).
LimitCounts(sql) ==
    {LimitAt(sql, i).groups[1] :
        i \in {j \in 1..Len(sql) : LimitAt(sql, j).found}}

txTOP == <<" ", "T", "O", "P", " ">>
txTOPword == <<"T", "O", "P", " ">>

\* Where the first SELECT keyword of a text starts (0 without one).
FirstSelect(text) ==
    LET hits == {i \in 1..Len(text) : LiteralAt(text, i, kwSELECT)}
    IN  IF hits = {} THEN 0
        ELSE CHOOSE i \in hits : \A j \in hits : i <= j

\* C23: for a query with a LIMIT N clause, the converted query has TOP N
\* right after its first SELECT keyword and no LIMIT clause any more, and
\* the N of every LIMIT clause removed is carried by a TOP clause.
C23_LimitBecomesTop ==
    (Converted /\ re_search(LimitPattern, sql_call.sql).found) =>
        LET n == re_search(LimitPattern, sql_call.sql).groups[1]
            at == FirstSelect(sql_call.converted)
        IN  /\ ~re_search(LimitPattern, sql_call.converted).found
            /\ at > 0
            /\ LiteralAt(sql_call.converted, at + Len(kwSELECT),
                         txTOP \o n \o txSpace)
            /\ \A count \in LimitCounts(sql_call.sql) :
                  Contains(txTOPword \o count \o txSpace,
                           Upper(sql_call.converted))

\* DATEADD(DAY, -N, d') for a call DATE_SUB(d, N), where d' is d with the
\* CURRENT_DATE token rewritten.
ExpectedDateAdd(date, offset) ==
    txDATEADD_DAY \o offset \o txComma
      \o (IF Upper(date) = kwCURRENT_DATE THEN txCAST_GETDATE ELSE date)
      \o txClose

\* None of the three rewritten patterns occurs in the query.
NothingToRewrite(sql) ==
    /\ ~re_search(LimitPattern, sql).found
    /\ ~re_search(DateSubPattern, sql).found
    /\ ~Contains(kwCURRENT_DATE, Upper(sql))

\* The converted query for a query DateHead + call [+ DateAnd + SecondCall]
\* in which every call is rewritten.
ExpectedDateQuery(date, offset, two) ==
    DateHead \o ExpectedDateAdd(date, offset)
      \o (IF two THEN DateAnd \o ExpectedDateAdd(kwCURRENT_DATE, <<"1">>)
          ELSE <<>>)

\* The query sql is DateHead + NAME(date,gap N) [+ DateAnd + SecondCall].
IsDateQuery(sql, date, offset, two) ==
    \E name \in DateSubNames, gap \in DateGaps :
        sql = DateHead \o DateSubCall(name, date, gap, offset)
                \o (IF two THEN DateAnd \o SecondCall ELSE <<>>)

C25_NoRepeatedExample ==
    (\A i, j \in DOMAIN test_cases :
        i # j => test_cases[i].question # test_cases[j].question) =>
        \A i, j \in DOMAIN add_calls :
            (i < j /\ add_calls[i].accepted /\ add_calls[j].accepted) =>
                <<add_calls[i].question, add_calls[i].sql>>
                  # <<add_calls[j].question, add_calls[j].sql>>

\* C26: for each of the four test cases, the template that
\* generate_correct_sql returns for the case's metric is the sql that
\* convert_dax_to_example derives from the metric name and the case's
\* ground-truth expression.
C26_TemplatesAgree ==
    \A i \in DOMAIN TEST_CASES :
        (/\ dax_call.op = "convert_dax_to_example"
         /\ dax_call.measure_name = Characters[TEST_CASES[i].metric_name]
         /\ dax_call.dax_expression
              = Characters[TEST_CASES[i].expected_dax]) =>
            LET template ==
                  generate_correct_sql(
                      [question |-> TEST_CASES[i].question,
                       metric |-> TEST_CASES[i].metric_name], "template")
            IN  /\ template.some
                /\ dax_call.result.some
                /\ dax_call.result.v.sql = Characters[template.v]

\* What a reader of ../config/failures.json finds: nothing when the file
\* is not there.
FileRecords == load_failures(failures_json)

\* C27: after every accuracy-testing run, failures.json holds exactly the
\* fail-status results of that run; a run without failures leaves no
\* earlier failure records in the file.
C27_FileHoldsLatestFailures ==
    (call.op = "run_accuracy_tests" /\ ~call.propagated) =>
        FileRecords = get_failures(results)

====
